---------------------------- MODULE Spec2Model ----------------------------
(***************************************************************************)
(* A model of booking.py: the availability parser (fetch_available_slots), *)
(* the slot resolver (get_booking_link), the monitor loop (monitor_slots,  *)
(* attempt_booking) and the booking flow (fill_form).                      *)
(*                                                                         *)
(* Python values are modelled as follows.                                  *)
(*   str   a sequence of one-character strings                             *)
(*   dict  a sequence of entries [k |-> key, v |-> value] with pairwise    *)
(*         distinct keys, in insertion order (a dict iterates in insertion *)
(*         order; assigning to an existing key keeps the key's position)   *)
(*   the availability map: [default |-> is it a defaultdict(dict),         *)
(*         items |-> dict day -> dict time label -> dict field -> link]    *)
(* Time is counted in ticks, TicksPerSec ticks to the second.              *)
(***************************************************************************)
EXTENDS Integers, Sequences, FiniteSets, TLC

VARIABLES
    cfg,        \* the arguments of monitor_slots: day, start_time, refresh_interval_s, review_time_s
    site,       \* what the booking site serves now: [status, container, rows]
    response,   \* the response of the last requests.get (a snapshot of site), or NoResponse
    slots,      \* the local `slots` of attempt_booking / the argument of get_booking_link
    pc,         \* the position of the single thread of control
    exc,        \* the exception in flight ("none" when there is none)
    bookingUrl, \* the local `booking_url` of attempt_booking
    now,        \* time.time(), in ticks
    t0,         \* the local `t0` of the wait loop running (monitor_slots or fill_form)
    session,    \* [playwright, browser, context]: the automation driver and the browser session
    ui,         \* number of page interactions of fill_form done in this invocation
    log,        \* the page interactions of the current fill_form invocation, in order
    hist        \* observations of the run: counters and timestamps the properties read

vars == <<cfg, site, response, slots, pc, exc, bookingUrl, now, t0, session, ui, log, hist>>

-----------------------------------------------------------------------------
(* Bounds of the model *)

\* ticks per second: the resolution at which time.time() is observed
TicksPerSec == 2
\* the run is followed until this many ticks have passed
MaxTime == 30
\* at most this many ticks pass outside the calls of time.sleep
MaxSlack == 3
\* largest review_time_s / refresh_interval_s explored (seconds)
MaxReview == 1
MaxRefresh == 2
\* pages of the parser specification: rows per page, bookable cells per page
MaxRows == 2
MaxCells == 2
\* rows per page of the pages built from the few rows of LongRows
MaxLongRows == 3

-----------------------------------------------------------------------------
(* Strings *)

Montag == <<"M", "o", "n", "t", "a", "g">>
Dienstag == <<"D", "i", "e", "n", "s", "t", "a", "g">>

\* time labels as the site prints them
T0809 == <<"0", "8", ":", "0", "0", "-", "0", "9", ":", "0", "0">>
T1516 == <<"1", "5", ":", "0", "0", "-", "1", "6", ":", "0", "0">>
T2122 == <<"2", "1", ":", "0", "0", "-", "2", "2", ":", "0", "0">>

\* the text of a cell's span.detail
Feld1 == <<"F", "e", "l", "d", " ", "1">>
Feld3 == <<"F", "e", "l", "d", " ", "3">>

IsSpace(c) == c \in {" ", "\n", "\t"}

RECURSIVE LStrip(_)
LStrip(s) == IF s # <<>> /\ IsSpace(Head(s)) THEN LStrip(Tail(s)) ELSE s

RECURSIVE RStrip(_)
RStrip(s) ==
    IF s # <<>> /\ IsSpace(s[Len(s)]) THEN RStrip(SubSeq(s, 1, Len(s) - 1)) ELSE s

\* str.strip()
Strip(s) == RStrip(LStrip(s))

DigitChar(d) ==
    CASE d = 0 -> "0" [] d = 1 -> "1" [] d = 2 -> "2" [] d = 3 -> "3" [] d = 4 -> "4"
      [] d = 5 -> "5" [] d = 6 -> "6" [] d = 7 -> "7" [] d = 8 -> "8" [] d = 9 -> "9"

\* the decimal digits of a natural number
RECURSIVE Decimal(_)
Decimal(n) == IF n < 10 THEN <<DigitChar(n)>> ELSE Decimal(n \div 10) \o <<DigitChar(n % 10)>>

\* (a variant without the padding: format(n, "d"))
Format02dNoPad(n) == Decimal(n)

\* format(n, "02d") for n >= 0: zero-padded to a width of at least two
Format02d(n) == IF n < 10 THEN <<"0">> \o Decimal(n) ELSE Decimal(n)

-----------------------------------------------------------------------------
(* dict *)

Keys(d) == {d[i].k : i \in DOMAIN d}

IndexOf(d, key) == CHOOSE i \in DOMAIN d : d[i].k = key

\* d[key] for key in d
DictGet(d, key) == d[IndexOf(d, key)].v

\* d[key] = value
DictSet(d, key, value) ==
    IF key \in Keys(d)
    THEN [d EXCEPT ![IndexOf(d, key)] = [k |-> key, v |-> value]]
    ELSE Append(d, [k |-> key, v |-> value])

\* defaultdict(dict).__getitem__ followed by an item assignment: d[k1][k2] = value
DictSet2(d, k1, k2, value) ==
    LET inner == IF k1 \in Keys(d) THEN DictGet(d, k1) ELSE <<>>
    IN  DictSet(d, k1, DictSet(inner, k2, value))


-----------------------------------------------------------------------------
(* Exceptions *)

NoExc == [type |-> "none", msg |-> ""]
ConnectionError == [type |-> "ConnectionError", msg |-> ""]
NoTableError == [type |-> "ValueError", msg |-> "Could not find table containing time slots."]
NoSlotError == [type |-> "ValueError", msg |-> "No slot available"]
KeyError == [type |-> "KeyError", msg |-> ""]
StopIteration == [type |-> "StopIteration", msg |-> ""]
PlaywrightError == [type |-> "PlaywrightError", msg |-> ""]

Return(value) == [exc |-> NoExc, value |-> value]
Raise(e) == [exc |-> e, value |-> <<>>]

-----------------------------------------------------------------------------
(* fetch_available_slots *)

\* the status check of the response
StatusAny2xx(status) == status \div 100 = 2
StatusOk(status) == status = 200

\* field = str(link_tag.find("span", class_="detail").text[-1])
FieldOf(detail) == <<detail[Len(detail)]>>

\* (a variant that reads time_slots[time] before it looks for the link)
RECURSIVE TimeSlotsOfTouch(_, _)
TimeSlotsOfTouch(cells, time_slots) ==
    IF cells = <<>> THEN time_slots
    ELSE LET cell == Head(cells)
             touched == IF cell.time \in Keys(time_slots) THEN time_slots
                        ELSE DictSet(time_slots, cell.time, <<>>)
         IN  TimeSlotsOfTouch(Tail(cells),
                 IF ~cell.a THEN touched
                 ELSE DictSet2(time_slots, cell.time, FieldOf(cell.detail), cell.href))

\* the loop over the bookable cells of one row, building time_slots
RECURSIVE TimeSlotsOf(_, _)
TimeSlotsOf(cells, time_slots) ==
    IF cells = <<>> THEN time_slots
    ELSE LET cell == Head(cells)
         IN  TimeSlotsOf(Tail(cells),
                 IF ~cell.a THEN time_slots
                 ELSE DictSet2(time_slots, cell.time, FieldOf(cell.detail), cell.href))

\* (a variant that adds the row's fields to those already stored for the time label)
RECURSIVE MergeFields(_, _)
MergeFields(fields, more) ==
    IF more = <<>> THEN fields
    ELSE MergeFields(DictSet(fields, Head(more).k, Head(more).v), Tail(more))

RECURSIVE StoreTimeSlotsMerge(_, _, _)
StoreTimeSlotsMerge(day_slots, day_name, time_slots) ==
    IF time_slots = <<>> THEN day_slots
    ELSE LET time == Head(time_slots).k
             old == IF day_name \in Keys(day_slots) /\ time \in Keys(DictGet(day_slots, day_name))
                    THEN DictGet(DictGet(day_slots, day_name), time) ELSE <<>>
         IN  StoreTimeSlotsMerge(
                 DictSet2(day_slots, day_name, time, MergeFields(old, Head(time_slots).v)),
                 day_name, Tail(time_slots))

\* the loop that stores the row's time slots under the current day
RECURSIVE StoreTimeSlots(_, _, _)
StoreTimeSlots(day_slots, day_name, time_slots) ==
    IF time_slots = <<>> THEN day_slots
    ELSE StoreTimeSlots(
             DictSet2(day_slots, day_name, Head(time_slots).k, Head(time_slots).v),
             day_name, Tail(time_slots))

\* (a variant in which a day header holds for the next slot row only)
ParseRowResetDay(st, row) ==
    IF row.head # <<>>
    THEN [st EXCEPT !.day_name = Strip(row.head[1])]
    ELSE IF row.cells # <<>>
    THEN [day_name |-> Montag,
          day_slots |->
              StoreTimeSlots(st.day_slots, st.day_name, TimeSlotsOf(row.cells, <<>>))]
    ELSE st

\* one iteration of the loop over the rows; st = [day_name, day_slots]
ParseRow(st, row) ==
    IF row.head # <<>>
    THEN [st EXCEPT !.day_name = Strip(row.head[1])]
    ELSE IF row.cells # <<>>
    THEN [st EXCEPT !.day_slots =
              StoreTimeSlots(st.day_slots, st.day_name, TimeSlotsOf(row.cells, <<>>))]
    ELSE st

RECURSIVE ParseRows(_, _)
ParseRows(st, rows) ==
    IF rows = <<>> THEN st ELSE ParseRows(ParseRow(st, Head(rows)), Tail(rows))

\* the whole function, applied to the response of requests.get
FetchAvailableSlotsResult(resp) ==
    IF ~StatusOk(resp.status) THEN Raise(ConnectionError)
    ELSE IF ~resp.container THEN Raise(NoTableError)
    ELSE Return([default |-> TRUE,
                 items |-> ParseRows([day_name |-> Montag, day_slots |-> <<>>],
                                     resp.rows).day_slots])

-----------------------------------------------------------------------------
(* generate_time_slot, get_booking_link *)

generate_time_slot(hour) ==
    Format02d(hour) \o <<":", "0", "0", "-">> \o Format02d(hour + 1) \o <<":", "0", "0">>

\* slots[day]: [exc, value, slots], slots being the map after the access
GetDay(map, day) ==
    IF day \in Keys(map.items)
    THEN [exc |-> NoExc, value |-> DictGet(map.items, day), slots |-> map]
    ELSE IF map.default
    THEN [exc |-> NoExc, value |-> <<>>,
          slots |-> [map EXCEPT !.items = DictSet(map.items, day, <<>>)]]
    ELSE [exc |-> KeyError, value |-> <<>>, slots |-> map]

\* d[key] of a plain dict
GetItem(d, key) == IF key \in Keys(d) THEN Return(DictGet(d, key)) ELSE Raise(KeyError)

\* next(iter(d))
LastKey(d) == IF d = <<>> THEN Raise(StopIteration) ELSE Return(d[Len(d)].k)
FirstKey(d) == IF d = <<>> THEN Raise(StopIteration) ELSE Return(Head(d).k)

\* the whole function: [exc, value, slots]
GetBookingLinkResult(map, day, start_time) ==
    LET time == generate_time_slot(start_time)
        byDay == GetDay(map, day)
        byTime == IF byDay.exc # NoExc THEN Raise(byDay.exc) ELSE GetItem(byDay.value, time)
        first_pitch == IF byTime.exc # NoExc THEN Raise(byTime.exc) ELSE FirstKey(byTime.value)
    IN  IF first_pitch.exc = KeyError
        THEN [exc |-> NoSlotError, value |-> <<>>, slots |-> byDay.slots]
        ELSE IF first_pitch.exc # NoExc
        THEN [exc |-> first_pitch.exc, value |-> <<>>, slots |-> byDay.slots]
        ELSE [exc |-> NoExc, value |-> DictGet(byTime.value, first_pitch.value),
              slots |-> byDay.slots]

-----------------------------------------------------------------------------
(* The booking site: markup of the availability page *)

\* a div.date.bookable with its a tag, and one without
Cell(time, detail, href) == [a |-> TRUE, time |-> time, detail |-> detail, href |-> href]
NoLinkCell == [a |-> FALSE, time |-> <<>>, detail |-> <<>>, href |-> ""]

\* a div.table-row: head holds the texts of its div.table-head.column-1 children,
\* cells its div.date.bookable children
HeaderRow(text) == [head |-> <<text>>, cells |-> <<>>]
SlotRow(cells) == [head |-> <<>>, cells |-> cells]
OtherRow == [head |-> <<>>, cells |-> <<>>]

Page(status, container, rows) == [status |-> status, container |-> container, rows |-> rows]
NoResponse == Page(0, FALSE, <<>>)

DienstagHeader == <<" ">> \o Dienstag \o <<"\n">>

\* what the site serves during a run
SiteStates ==
    { Page(200, FALSE, <<>>),
      Page(200, TRUE, <<SlotRow(<<Cell(T1516, Feld3, "link-a"), Cell(T1516, Feld1, "link-b")>>)>>),
      Page(200, TRUE, <<SlotRow(<<Cell(T0809, Feld1, "link-c")>>),
                        HeaderRow(DienstagHeader),
                        SlotRow(<<Cell(T1516, Feld1, "link-d")>>)>>),
      Page(200, TRUE, <<SlotRow(<<Cell(T1516, Feld1, "link-e")>>),
                        HeaderRow(DienstagHeader),
                        SlotRow(<<Cell(T1516, Feld3, "link-f")>>)>>) }
    \cup { Page(st, FALSE, <<>>) : st \in {204, 404, 500} }

-----------------------------------------------------------------------------
(* The run: monitor_slots, attempt_booking, fill_form *)

GraceSeconds == 10
\* the argument of time.sleep in the two wait loops
SleepSeconds == 1

\* the page interactions of fill_form up to the review wait, in program order
\* (a variant that submits the form before the terms checkbox is checked)
UiStepsSubmitEarly == <<"goto", "radio", "weiter zur Buchung", "person1", "person2", "iban",
                        "bic", "verbindlich anmelden", "BuchBed", "checkbox">>

UiSteps == <<"goto", "radio", "weiter zur Buchung", "person1", "person2", "iban", "bic",
             "BuchBed", "verbindlich anmelden", "checkbox">>

\* the positions where a call into the browser automation is about to be made
AutomationPcs == {"launch", "new_context", "ui", "book", "close_context", "close_browser"}
\* the positions inside `with sync_playwright()`
FlowPcs == AutomationPcs \cup {"review_t0", "review", "grace", "with_exit"}

\* where control goes when attempt_booking raises: monitor_slots has no handler
\* around the call, so the exception leaves monitor_slots and ends the run
AttemptRaisedRetry == "wait_t0"
AttemptRaised == "raised"

\* the review wait is over
ReviewOverEarly(elapsed, review_time_s) == elapsed + TicksPerSec > review_time_s * TicksPerSec
ReviewOver(elapsed, review_time_s) == elapsed > review_time_s * TicksPerSec

\* the inter-poll wait is over: remaining_time <= 0
WaitOverStrict(elapsed, refresh_interval_s) == refresh_interval_s * TicksPerSec - elapsed < 0
WaitOverEarly(elapsed, refresh_interval_s) ==
    refresh_interval_s * TicksPerSec - elapsed <= TicksPerSec
WaitOver(elapsed, refresh_interval_s) == refresh_interval_s * TicksPerSec - elapsed <= 0

\* leaving `with sync_playwright()`: the driver is stopped, and with it every browser
\* and context it launched that is still open
StopPlaywrightOnly(s) == [s EXCEPT !.playwright = "stopped"]
StopPlaywright(s) ==
    [playwright |-> "stopped",
     browser |-> IF s.browser = "open" THEN "closed" ELSE s.browser,
     context |-> IF s.context = "open" THEN "closed" ELSE s.context]

NoSession == [playwright |-> "stopped", browser |-> "none", context |-> "none"]

InitHist ==
    [polls |-> 0, resolves |-> 0, fills |-> 0, clicks |-> 0, completed |-> 0,
     flowFailed |-> FALSE, failPolls |-> 0, failFills |-> 0,
     slack |-> 0, attemptStart |-> 0, prevAttemptStart |-> 0, attemptEnd |-> 0,
     prevAttemptEnd |-> 0,
     waitSleeps |-> 0, sleepElapsed |-> 0, sleepFor |-> 0,
     fetchPoll |-> 0, fillPoll |-> 0, launches |-> 0, closed |-> 0, confirmAt |-> 0, clickAt |-> 0,
     navigated |-> "", slotsIn |-> [default |-> TRUE, items |-> <<>>]]

InitRest ==
    /\ response = NoResponse
    /\ exc = NoExc
    /\ bookingUrl = ""
    /\ now = 0
    /\ t0 = 0
    /\ session = NoSession
    /\ ui = 0
    /\ log = <<>>

Init ==
    /\ cfg \in [day : {Montag, Dienstag}, start_time : {15},
                refresh_interval_s : 1..MaxRefresh, review_time_s : 0..MaxReview]
    /\ site \in SiteStates
    /\ slots = [default |-> TRUE, items |-> <<>>]
    /\ pc = "attempt"
    /\ hist = InitHist
    /\ InitRest

\* time passes while the program runs (a request, a page interaction, a sleep that
\* overruns take time)
Tick ==
    /\ pc # "raised"
    /\ now < MaxTime
    /\ hist.slack < MaxSlack
    /\ now' = now + 1
    /\ hist' = [hist EXCEPT !.slack = @ + 1]
    /\ UNCHANGED <<cfg, site, response, slots, pc, exc, bookingUrl, t0, session, ui, log>>

\* the site changes what it serves (observed only by the next poll)
SiteChanges ==
    /\ pc = "attempt"
    /\ site' \in SiteStates \ {site}
    /\ UNCHANGED <<cfg, response, slots, pc, exc, bookingUrl, now, t0, session, ui, log, hist>>

\* monitor_slots: the head of the outer loop calls attempt_booking
MonitorIterate ==
    /\ pc = "attempt"
    /\ pc' = "fetch"
    /\ hist' = [hist EXCEPT !.polls = @ + 1, !.attemptStart = now,
                            !.prevAttemptStart = hist.attemptStart,
                            !.prevAttemptEnd = hist.attemptEnd]
    /\ UNCHANGED <<cfg, site, response, slots, exc, bookingUrl, now, t0, session, ui, log>>

\* attempt_booking: slots = self.fetch_available_slots(slots_url)
FetchAvailableSlots ==
    /\ pc = "fetch"
    /\ response' = site
    /\ LET r == FetchAvailableSlotsResult(site)
       IN  IF r.exc = NoExc
           THEN /\ slots' = r.value
                /\ pc' = "resolve"
                /\ exc' = exc
           ELSE /\ slots' = slots
                /\ pc' = AttemptRaised
                /\ exc' = r.exc
    /\ hist' = [hist EXCEPT !.fetchPoll = hist.polls]
    /\ UNCHANGED <<cfg, site, bookingUrl, now, t0, session, ui, log>>

\* (a variant that keeps the link of an earlier poll once it has one)
GetBookingLinkCached ==
    /\ pc = "resolve"
    /\ LET r == GetBookingLinkResult(slots, cfg.day, cfg.start_time)
       IN  /\ slots' = r.slots
           /\ IF r.exc = NoExc
              THEN /\ bookingUrl' = IF bookingUrl # "" THEN bookingUrl ELSE r.value
                   /\ pc' = "with_enter"
                   /\ exc' = exc
              ELSE /\ bookingUrl' = bookingUrl
                   /\ pc' = AttemptRaised
                   /\ exc' = r.exc
    /\ hist' = [hist EXCEPT !.resolves = @ + 1, !.slotsIn = slots]
    /\ UNCHANGED <<cfg, site, response, now, t0, session, ui, log>>

\* attempt_booking: booking_url = self.get_booking_link(slots, day, start_time)
GetBookingLink ==
    /\ pc = "resolve"
    /\ LET r == GetBookingLinkResult(slots, cfg.day, cfg.start_time)
       IN  /\ slots' = r.slots
           /\ IF r.exc = NoExc
              THEN /\ bookingUrl' = r.value
                   /\ pc' = "with_enter"
                   /\ exc' = exc
              ELSE /\ bookingUrl' = bookingUrl
                   /\ pc' = AttemptRaised
                   /\ exc' = r.exc
    /\ hist' = [hist EXCEPT !.resolves = @ + 1, !.slotsIn = slots]
    /\ UNCHANGED <<cfg, site, response, now, t0, session, ui, log>>

\* attempt_booking: with sync_playwright() as playwright: self.fill_form(...)
SyncPlaywrightEnter ==
    /\ pc = "with_enter"
    /\ pc' = "launch"
    /\ session' = [playwright |-> "running", browser |-> "none", context |-> "none"]
    /\ ui' = 0
    /\ log' = <<>>
    /\ hist' = [hist EXCEPT !.fills = @ + 1, !.fillPoll = hist.polls]
    /\ UNCHANGED <<cfg, site, response, slots, exc, bookingUrl, now, t0>>

\* (a variant that launches a browser once and takes the same one afterwards)
LaunchBrowserReuse ==
    /\ pc = "launch"
    /\ pc' = "new_context"
    /\ session' = [session EXCEPT !.browser = "open"]
    /\ hist' = IF hist.launches >= 1 THEN hist ELSE [hist EXCEPT !.launches = @ + 1]
    /\ UNCHANGED <<cfg, site, response, slots, exc, bookingUrl, now, t0, ui, log>>

\* fill_form: browser = playwright.chromium.launch(headless=False)
LaunchBrowser ==
    /\ pc = "launch"
    /\ pc' = "new_context"
    /\ session' = [session EXCEPT !.browser = "open"]
    /\ hist' = [hist EXCEPT !.launches = @ + 1]
    /\ UNCHANGED <<cfg, site, response, slots, exc, bookingUrl, now, t0, ui, log>>

\* fill_form: context = browser.new_context(); page = context.new_page()
NewContext ==
    /\ pc = "new_context"
    /\ pc' = "ui"
    /\ session' = [session EXCEPT !.context = "open"]
    /\ UNCHANGED <<cfg, site, response, slots, exc, bookingUrl, now, t0, ui, log, hist>>

\* fill_form: the next page interaction, from page.goto(booking_url) to the check of
\* the final confirmation checkbox
UiStep ==
    /\ pc = "ui"
    /\ ui' = ui + 1
    /\ log' = Append(log, UiSteps[ui + 1])
    /\ pc' = IF ui + 1 = Len(UiSteps) THEN "review_t0" ELSE "ui"
    /\ hist' = [hist EXCEPT
                  !.navigated = IF UiSteps[ui + 1] = "goto" THEN bookingUrl ELSE @,
                  !.confirmAt = IF UiSteps[ui + 1] = "checkbox" THEN now ELSE @]
    /\ UNCHANGED <<cfg, site, response, slots, exc, bookingUrl, now, t0, session>>

\* fill_form: t0 = time.time()
ReviewStart ==
    /\ pc = "review_t0"
    /\ pc' = "review"
    /\ t0' = now
    /\ UNCHANGED <<cfg, site, response, slots, exc, bookingUrl, now, session, ui, log, hist>>

\* fill_form: one iteration of the review loop: break, or time.sleep(1)
ReviewLoop ==
    /\ pc = "review"
    /\ IF ReviewOver(now - t0, cfg.review_time_s)
       THEN /\ pc' = "book"
            /\ now' = now
       ELSE /\ now + SleepSeconds * TicksPerSec <= MaxTime
            /\ pc' = "review"
            /\ now' = now + SleepSeconds * TicksPerSec
    /\ UNCHANGED <<cfg, site, response, slots, exc, bookingUrl, t0, session, ui, log, hist>>

\* fill_form: page.get_by_role("button", name="kostenpflichtig buchen").click()
ClickBook ==
    /\ pc = "book"
    /\ pc' = "grace"
    /\ log' = Append(log, "kostenpflichtig buchen")
    /\ hist' = [hist EXCEPT !.clicks = @ + 1, !.clickAt = now]
    /\ UNCHANGED <<cfg, site, response, slots, exc, bookingUrl, now, t0, session, ui>>

\* fill_form: time.sleep(10)
GraceSleep ==
    /\ pc = "grace"
    /\ now + GraceSeconds * TicksPerSec <= MaxTime
    /\ pc' = "close_context"
    /\ now' = now + GraceSeconds * TicksPerSec
    /\ UNCHANGED <<cfg, site, response, slots, exc, bookingUrl, t0, session, ui, log, hist>>

\* fill_form: context.close()
CloseContext ==
    /\ pc = "close_context"
    /\ pc' = "close_browser"
    /\ session' = [session EXCEPT !.context = "closed"]
    /\ UNCHANGED <<cfg, site, response, slots, exc, bookingUrl, now, t0, ui, log, hist>>

\* fill_form: browser.close(), and the return
CloseBrowser ==
    /\ pc = "close_browser"
    /\ pc' = "with_exit"
    /\ session' = [session EXCEPT !.browser = "closed"]
    /\ hist' = [hist EXCEPT !.completed = @ + 1, !.closed = @ + 1]
    /\ UNCHANGED <<cfg, site, response, slots, exc, bookingUrl, now, t0, ui, log>>

\* fill_form: the call into the browser automation raises (a control or field is
\* missing, the browser crashed); fill_form has no handler
AutomationFails ==
    /\ pc \in AutomationPcs
    /\ pc' = "with_exit"
    /\ exc' = PlaywrightError
    /\ hist' = [hist EXCEPT !.flowFailed = TRUE, !.failPolls = hist.polls,
                            !.failFills = hist.fills]
    /\ UNCHANGED <<cfg, site, response, slots, bookingUrl, now, t0, session, ui, log>>

\* attempt_booking: the with statement is left, by return or by exception
WithExit ==
    /\ pc = "with_exit"
    /\ session' = StopPlaywright(session)
    /\ pc' = IF exc = NoExc THEN "wait_t0" ELSE AttemptRaised
    /\ hist' = [hist EXCEPT !.closed =
                  IF session.browser = "open" /\ session'.browser = "closed" THEN @ + 1 ELSE @]
    /\ UNCHANGED <<cfg, site, response, slots, exc, bookingUrl, now, t0, ui, log>>

\* monitor_slots: t0 = time.time()
WaitStart ==
    /\ pc = "wait_t0"
    /\ pc' = "wait"
    /\ t0' = now
    /\ hist' = [hist EXCEPT !.attemptEnd = now]
    /\ UNCHANGED <<cfg, site, response, slots, exc, bookingUrl, now, session, ui, log>>

\* monitor_slots: one iteration of the wait loop: break, or time.sleep(1)
WaitLoop ==
    /\ pc = "wait"
    /\ IF WaitOver(now - t0, cfg.refresh_interval_s)
       THEN /\ pc' = "attempt"
            /\ now' = now
            /\ hist' = hist
       ELSE /\ now + SleepSeconds * TicksPerSec <= MaxTime
            /\ pc' = "wait"
            /\ now' = now + SleepSeconds * TicksPerSec
            /\ hist' = [hist EXCEPT !.waitSleeps = @ + 1, !.sleepElapsed = now - t0,
                                    !.sleepFor = SleepSeconds * TicksPerSec]
    /\ UNCHANGED <<cfg, site, response, slots, exc, bookingUrl, t0, session, ui, log>>

Next ==
    \/ Tick
    \/ SiteChanges
    \/ MonitorIterate
    \/ FetchAvailableSlots
    \/ GetBookingLink
    \/ SyncPlaywrightEnter
    \/ LaunchBrowser
    \/ NewContext
    \/ UiStep
    \/ ReviewStart
    \/ ReviewLoop
    \/ ClickBook
    \/ GraceSleep
    \/ CloseContext
    \/ CloseBrowser
    \/ AutomationFails
    \/ WithExit
    \/ WaitStart
    \/ WaitLoop

Spec == Init /\ [][Next]_vars

-----------------------------------------------------------------------------
(* The parser and the resolver on every small page: one poll of a page drawn *)
(* from the pages of at most MaxRows rows and MaxCells bookable cells        *)

CellChoices ==
    { Cell(time, detail, href) :
        time \in {T0809, T1516}, detail \in {Feld1, Feld3}, href \in {"link-a", "link-b"} }
    \cup {NoLinkCell}

\* the rows with k >= 1 bookable cells
SlotRows(k) == { SlotRow(cells) : cells \in [1..k -> CellChoices] }

PlainRows == {HeaderRow(Montag), HeaderRow(DienstagHeader), OtherRow}

\* the sequences of at most n rows holding at most c bookable cells
RECURSIVE RowSeqs(_, _)
RowSeqs(n, c) ==
    IF n = 0 THEN {<<>>}
    ELSE {<<>>}
         \cup { <<r>> \o rest : r \in PlainRows, rest \in RowSeqs(n - 1, c) }
         \cup UNION { { <<r>> \o rest : r \in SlotRows(k), rest \in RowSeqs(n - 1, c - k) } :
                      k \in 1..c }

\* a few rows, of which longer pages are built
LongRows ==
    PlainRows \cup
    { SlotRow(<<Cell(T1516, Feld1, "link-a")>>),
      SlotRow(<<Cell(T1516, Feld3, "link-b")>>),
      SlotRow(<<Cell(T0809, Feld1, "link-a")>>),
      SlotRow(<<Cell(T0809, Feld3, "link-b"), Cell(T1516, Feld3, "link-a")>>) }

LongRowSeqs == UNION { [1..n -> LongRows] : n \in 0..MaxLongRows }

ParsePages ==
    { Page(200, TRUE, rows) : rows \in RowSeqs(MaxRows, MaxCells) \cup LongRowSeqs }
    \cup {Page(200, FALSE, <<>>)}

ParseInit ==
    /\ cfg \in [day : {Montag, Dienstag}, start_time : {8, 15},
                refresh_interval_s : {1}, review_time_s : {0}]
    /\ site \in ParsePages
    /\ slots = [default |-> TRUE, items |-> <<>>]
    /\ pc = "fetch"
    /\ hist = [InitHist EXCEPT !.polls = 1]
    /\ InitRest

ParseNext == FetchAvailableSlots \/ GetBookingLink

ParseSpec == ParseInit /\ [][ParseNext]_vars

-----------------------------------------------------------------------------
(* The resolver on every small map, also maps no page yields: one call of *)
(* get_booking_link on a dict or defaultdict drawn from ResolveMaps       *)

FieldDicts ==
    { <<>>,
      <<[k |-> <<"1">>, v |-> "link-a"]>>,
      <<[k |-> <<"3">>, v |-> "link-a"], [k |-> <<"1">>, v |-> "link-b"]>>,
      <<[k |-> <<"1">>, v |-> "link-b"], [k |-> <<"3">>, v |-> "link-a"]>> }

\* the dicts with the keys of the sequence ks, in that order, and values of vs
DictsOver(ks, vs) == { [i \in 1..Len(ks) |-> [k |-> ks[i], v |-> f[i]]] : f \in [1..Len(ks) -> vs] }

TimeDicts ==
    UNION { DictsOver(ks, FieldDicts) : ks \in {<<>>, <<T0809>>, <<T1516>>, <<T0809, T1516>>,
                                                   <<T2122>>, <<T2122, T0809>>} }

ResolveMaps ==
    { [default |-> dd, items |-> items] :
        dd \in BOOLEAN,
        items \in UNION { DictsOver(ks, TimeDicts) :
                          ks \in {<<>>, <<Montag>>, <<Dienstag>>, <<Dienstag, Montag>>} } }

MinHour == 8
MaxHour == 22

ResolveInit ==
    /\ cfg \in [day : {Montag, Dienstag}, start_time : MinHour..(MaxHour - 1),
                refresh_interval_s : {1}, review_time_s : {0}]
    /\ site = NoResponse
    /\ slots \in ResolveMaps
    /\ pc = "resolve"
    /\ hist = [InitHist EXCEPT !.polls = 1]
    /\ InitRest

ResolveSpec == ResolveInit /\ [][GetBookingLink]_vars

-----------------------------------------------------------------------------
(* Properties of the run (Spec) *)

\* the final booking action was clicked in the current invocation of fill_form
Clicked == log # <<>> /\ log[Len(log)] = "kostenpflichtig buchen"

\* C1: a poll attempt that fails with ConnectionError (page unreachable), with the
\* ValueError of the missing schedule container or with the ValueError of the
\* unavailable slot does not end the loop of monitor_slots.
C1_TransientFailureIsRetried ==
    exc \in {ConnectionError, NoTableError, NoSlotError} => pc # "raised"

\* C2: fill_form is invoked at most once in a run.
C2_FillFormAtMostOnce == hist.fills <= 1

\* C3: once fill_form has completed, monitor_slots neither waits for the refresh
\* interval nor fetches the availability page again.
C3_TerminatesAfterBooking == hist.completed >= 1 => pc \notin {"wait", "fetch"}

\* C4: the click on 'kostenpflichtig buchen' comes at least review_time_s seconds
\* after the final confirmation checkbox was checked, for every review_time_s >= 0.
C4_ReviewTimeBeforeBooking ==
    Clicked => hist.clickAt - hist.confirmAt >= cfg.review_time_s * TicksPerSec

C4_Witness == Clicked /\ cfg.review_time_s >= 1 /\ hist.clickAt > hist.confirmAt

\* C5: wherever control is outside the booking flow, no browser and no context is
\* open: the session fill_form opened is closed after a completed booking and after
\* a failure of any stage alike.
C5_SessionClosedOnEveryExit ==
    pc \notin FlowPcs => session.browser # "open" /\ session.context # "open"

C5_Witness ==
    /\ pc = "raised"
    /\ exc = PlaywrightError
    /\ session.browser = "closed"
    /\ session.context = "closed"
    /\ hist.completed = 0

\* C6: after fill_form has failed, the exception leaves attempt_booking and
\* monitor_slots: the run ends with no further poll and no further booking attempt.
C6_FlowFailureEndsRun ==
    hist.flowFailed =>
        /\ pc \in {"with_exit", "raised"}
        /\ exc = PlaywrightError
        /\ hist.polls = hist.failPolls
        /\ hist.fills = hist.failFills

C6_Witness == hist.flowFailed /\ pc = "raised" /\ ui >= 1

\* C9 as stated: the fetch fails with ConnectionError exactly when the status is not
\* a 2xx status.
C9_Every2xxIsSuccess ==
    response # NoResponse => (exc = ConnectionError <=> response.status \div 100 # 2)

\* C9 as amended: the fetch fails with ConnectionError exactly when the status is not
\* 200 (so also for 204), and only a response of status 200 is parsed.
C9_Only200IsSuccess ==
    response # NoResponse =>
        /\ exc = ConnectionError <=> response.status # 200
        /\ pc = "resolve" =>
              /\ response.status = 200
              /\ response.container
              /\ slots.items = ParseRows([day_name |-> Montag, day_slots |-> <<>>],
                                         response.rows).day_slots

C9_Witness == response.status = 204 /\ exc = ConnectionError /\ pc = "raised"

\* C11: every sleep of the inter-poll wait lasts a non-negative time, and no sleep is
\* started once refresh_interval_s has elapsed since t0: the loop is left instead.
C11_WaitSleepsWithinInterval ==
    hist.waitSleeps >= 1 =>
        /\ hist.sleepFor >= 0
        /\ hist.sleepElapsed >= 0
        /\ hist.sleepElapsed < cfg.refresh_interval_s * TicksPerSec

\* two sleeps were needed, the loop was left and the next poll has begun
C11_Witness == hist.waitSleeps >= 2 /\ pc = "fetch" /\ hist.polls = 2

-----------------------------------------------------------------------------
(* Properties of get_booking_link (ResolveSpec, ParseSpec) *)

\* get_booking_link has been called and has returned or raised
Resolved == hist.resolves >= 1 /\ pc \in {"with_enter", "raised"}

\* day is no key of the map / the time label is no key under day / the field mapping
\* under day and time label is empty
DayMissing(map, day) == day \notin Keys(map.items)
TimeMissing(map, day, time) ==
    /\ ~DayMissing(map, day)
    /\ time \notin Keys(DictGet(map.items, day))
FieldsEmpty(map, day, time) ==
    /\ ~DayMissing(map, day)
    /\ ~TimeMissing(map, day, time)
    /\ DictGet(DictGet(map.items, day), time) = <<>>

\* C7: get_booking_link fails with the ValueError 'No slot available' when the day
\* is missing, when the time label is missing under the day, and when the field
\* mapping under them is empty.
C7_SameErrorInAllThreeCases ==
    LET time == generate_time_slot(cfg.start_time)
    IN  /\ Resolved
        /\ \/ DayMissing(hist.slotsIn, cfg.day)
           \/ TimeMissing(hist.slotsIn, cfg.day, time)
           \/ FieldsEmpty(hist.slotsIn, cfg.day, time)
        => exc = NoSlotError

\* C10: a call of get_booking_link leaves the map it is given as it was.
C10_ResolveLeavesMapUnchanged == Resolved => slots = hist.slotsIn

SetMax(S) == CHOOSE x \in S : \A y \in S : y <= x
SetMin(S) == CHOOSE x \in S : \A y \in S : x <= y

\* the day a row of the page belongs to: the stripped text of the last header row
\* before it, Montag when there is none
DayOfRow(rows, i) ==
    LET headers == {j \in 1..(i - 1) : rows[j].head # <<>>}
    IN  IF headers = {} THEN Montag ELSE Strip(rows[SetMax(headers)].head[1])

\* the cells of row i that carry a link for the time label
LinkedCells(rows, i, time) ==
    {c \in DOMAIN rows[i].cells : rows[i].cells[c].a /\ rows[i].cells[c].time = time}

\* the slot rows of the day that offer the time label
OfferingRows(rows, day, time) ==
    {i \in DOMAIN rows :
        /\ rows[i].head = <<>>
        /\ DayOfRow(rows, i) = day
        /\ LinkedCells(rows, i, time) # {}}

\* the link of the field whose cell comes first, in the order of the source page,
\* among the cells of the last row that offers the day and time label
FirstFieldLink(rows, day, time) ==
    LET i == SetMax(OfferingRows(rows, day, time))
        cells == rows[i].cells
        first == SetMin(LinkedCells(rows, i, time))
        same == {c \in LinkedCells(rows, i, time) :
                    FieldOf(cells[c].detail) = FieldOf(cells[first].detail)}
    IN  cells[SetMax(same)].href

\* C8: when the page offers the day and time label, get_booking_link returns the
\* link of the field inserted first (the first cell in page order), whatever the
\* field numbers; when the page does not offer it, no link is returned.
C8_FirstInsertedFieldWins ==
    LET time == generate_time_slot(cfg.start_time)
    IN  /\ Resolved
        /\ response.container
        => IF OfferingRows(response.rows, cfg.day, time) # {}
           THEN /\ pc = "with_enter"
                /\ bookingUrl = FirstFieldLink(response.rows, cfg.day, time)
                /\ bookingUrl = Head(DictGet(DictGet(hist.slotsIn.items, cfg.day), time)).v
           ELSE pc = "raised"

\* fields 3 then 1 on the page: the link of field 3 is returned
C8_Witness ==
    /\ Resolved
    /\ cfg.day = Montag
    /\ cfg.start_time = 15
    /\ response.rows =
           <<SlotRow(<<Cell(T1516, Feld3, "link-a"), Cell(T1516, Feld1, "link-b")>>)>>
    /\ bookingUrl = "link-a"

-----------------------------------------------------------------------------
(* Properties of fetch_available_slots (ParseSpec) *)

\* fetch_available_slots has returned a map, and FetchedMap is that map
Fetched == response # NoResponse /\ response.container /\ pc # "fetch"
FetchedMap == IF pc = "resolve" THEN slots ELSE hist.slotsIn

\* the map holds day -> time label
Offers(m, day, time) == day \in Keys(m) /\ time \in Keys(DictGet(m, day))

\* C12: the time label of every linked cell of a slot row is stored under the day of
\* the last day header before the row, under Montag when no header precedes the row;
\* and the map holds no day and time label but those.
C12_DayCarriedForward ==
    Fetched =>
        LET rows == response.rows
            m == FetchedMap.items
        IN  /\ \A i \in DOMAIN rows : \A c \in DOMAIN rows[i].cells :
                   rows[i].head = <<>> /\ rows[i].cells[c].a
                   => Offers(m, DayOfRow(rows, i), rows[i].cells[c].time)
            /\ \A d \in Keys(m) : \A t \in Keys(DictGet(m, d)) :
                   OfferingRows(rows, d, t) # {}

\* a header followed by two slot rows with different time labels: both under Dienstag
C12_Witness ==
    /\ Fetched
    /\ Len(response.rows) = 3
    /\ response.rows[1] = HeaderRow(DienstagHeader)
    /\ response.rows[2] = SlotRow(<<Cell(T0809, Feld1, "link-a")>>)
    /\ response.rows[3] = SlotRow(<<Cell(T1516, Feld1, "link-a")>>)
    /\ Keys(FetchedMap.items) = {Dienstag}
    /\ Keys(DictGet(FetchedMap.items, Dienstag)) = {T0809, T1516}

\* C18: the map returned by fetch_available_slots has no day without a time label and
\* no time label without a field, and get_booking_link on it
\* returns a link or raises the ValueError 'No slot available', nothing else.
C18_NoEmptyLevel ==
    Fetched =>
        LET m == FetchedMap.items
        IN  /\ \A i \in DOMAIN m :
                   /\ m[i].v # <<>>
                   /\ \A j \in DOMAIN m[i].v : m[i].v[j].v # <<>>
            /\ Resolved => exc \in {NoExc, NoSlotError}

\* a row whose only bookable cell has no link adds nothing
C18_Witness ==
    /\ Resolved
    /\ response.rows = <<HeaderRow(DienstagHeader), SlotRow(<<NoLinkCell>>)>>
    /\ hist.slotsIn.items = <<>>
    /\ exc = NoSlotError

\* the fields of the linked cells of row i for the time label
RowFields(rows, i, time) ==
    {FieldOf(rows[i].cells[c].detail) : c \in LinkedCells(rows, i, time)}

\* C19: under a day and time label the map holds the fields of the last row of that
\* day offering the label, and only those (an earlier row's fields are replaced);
\* a label offered only by an earlier row is kept.
C19_LaterRowReplaces ==
    Fetched =>
        LET rows == response.rows
            m == FetchedMap.items
        IN  /\ \A d \in Keys(m) : \A t \in Keys(DictGet(m, d)) :
                   Keys(DictGet(DictGet(m, d), t))
                       = RowFields(rows, SetMax(OfferingRows(rows, d, t)), t)
            /\ \A i \in DOMAIN rows : \A c \in DOMAIN rows[i].cells :
                   rows[i].head = <<>> /\ rows[i].cells[c].a
                   => Offers(m, DayOfRow(rows, i), rows[i].cells[c].time)

\* 15:00-16:00 is offered by both rows: field 3 of the first row is replaced by field
\* 1 of the second, and 08:00-09:00 of the first row is kept
C19_Witness ==
    /\ Fetched
    /\ response.rows = <<SlotRow(<<Cell(T0809, Feld3, "link-b"), Cell(T1516, Feld3, "link-a")>>),
                         SlotRow(<<Cell(T1516, Feld1, "link-a")>>)>>
    /\ Keys(DictGet(DictGet(FetchedMap.items, Montag), T1516)) = {<<"1">>}
    /\ Keys(DictGet(DictGet(FetchedMap.items, Montag), T0809)) = {<<"3">>}

-----------------------------------------------------------------------------
(* Properties of generate_time_slot (ResolveSpec) *)

\* n < 100 as two digits, and the label of the hour from h to h + 1
TwoDigits(n) == <<DigitChar(n \div 10), DigitChar(n % 10)>>
HourLabel(h) == TwoDigits(h) \o <<":", "0", "0", "-">> \o TwoDigits(h + 1) \o <<":", "0", "0">>

\* C13: for every hour h from 8 to 21 generate_time_slot(h) is h as two zero-padded
\* digits, ':00-', h + 1 as two zero-padded digits, ':00' ('08:00-09:00' for 8 and
\* '21:00-22:00' for 21), and get_booking_link returns a link exactly when this label
\* is a key under the day with a field, the link of its first field.
C13_LabelIsLookupKey ==
    /\ \A h \in MinHour..(MaxHour - 1) : generate_time_slot(h) = HourLabel(h)
    /\ generate_time_slot(MinHour) = T0809
    /\ generate_time_slot(MaxHour - 1) = T2122
    /\ Resolved =>
           LET m == hist.slotsIn.items
               label == HourLabel(cfg.start_time)
               found == /\ Offers(m, cfg.day, label)
                        /\ DictGet(DictGet(m, cfg.day), label) # <<>>
           IN  /\ exc = NoExc <=> found
               /\ found => bookingUrl = DictGet(DictGet(m, cfg.day), label)[1].v

\* the last valid hour resolves under '21:00-22:00', next to another label
C13_Witness ==
    /\ Resolved
    /\ cfg.start_time = MaxHour - 1
    /\ ~DayMissing(hist.slotsIn, cfg.day)
    /\ Keys(DictGet(hist.slotsIn.items, cfg.day)) = {T2122, T0809}
    /\ exc = NoExc
    /\ bookingUrl = "link-b"

-----------------------------------------------------------------------------
(* Properties of the booking flow (Spec) *)

\* the position of a page interaction in the log of the current invocation, 0 if absent
Pos(step) == IF \E i \in DOMAIN log : log[i] = step
             THEN CHOOSE i \in DOMAIN log : log[i] = step ELSE 0

\* b has happened only if a happened before it
Before(a, b) == Pos(b) > 0 => Pos(a) > 0 /\ Pos(a) < Pos(b)

\* C15: within one invocation of fill_form 'weiter zur Buchung' is clicked after the
\* navigation to the link and the check of the radio button; 'verbindlich anmelden'
\* after person 1, person 2, IBAN, BIC and the terms checkbox, all of them after
\* 'weiter zur Buchung'; the confirmation checkbox after 'verbindlich anmelden';
\* 'kostenpflichtig buchen' after the confirmation checkbox; nothing happens twice.
C15_StagesInOrder ==
    /\ Before("goto", "radio")
    /\ Before("radio", "weiter zur Buchung")
    /\ \A x \in {"person1", "person2", "iban", "bic", "BuchBed"} :
           /\ Before("weiter zur Buchung", x)
           /\ Before(x, "verbindlich anmelden")
    /\ Before("verbindlich anmelden", "checkbox")
    /\ Before("checkbox", "kostenpflichtig buchen")
    /\ \A i, j \in DOMAIN log : log[i] = log[j] => i = j
    /\ pc \in {"grace", "close_context", "close_browser"} => Clicked

\* the whole flow has run, the final click included
C15_Witness == Clicked /\ Len(log) = 11 /\ pc = "close_browser"

\* C16: the booking flow runs in the poll attempt whose fetch and resolution gave the
\* link, no inter-poll wait is reached in an attempt whose flow has not started, and
\* the browser navigates to the link the page fetched in this attempt gives for the
\* day and time label.
C16_FlowUsesLinkOfThisAttempt ==
    LET time == generate_time_slot(cfg.start_time)
    IN  /\ pc \in FlowPcs \cup {"wait_t0", "wait"} =>
               /\ hist.fillPoll = hist.polls
               /\ hist.fetchPoll = hist.polls
        /\ pc \in FlowPcs /\ Pos("goto") > 0 =>
               /\ OfferingRows(response.rows, cfg.day, time) # {}
               /\ hist.navigated = FirstFieldLink(response.rows, cfg.day, time)
               /\ hist.navigated = bookingUrl

\* the second poll finds another page than the first and navigates to its link
C16_Witness ==
    /\ hist.polls = 2
    /\ hist.fills = 2
    /\ pc = "ui"
    /\ Pos("goto") > 0
    /\ hist.navigated = "link-e"

\* C17: every invocation of fill_form launches a browser of its own, at most one
\* browser is open at any time, and none is open while monitor_slots fetches and
\* resolves or waits between polls.
C17_OwnSessionAtMostOneOpen ==
    /\ hist.launches - hist.closed \in {0, 1}
    /\ session.browser = "open" <=> hist.launches - hist.closed = 1
    /\ pc \in {"attempt", "fetch", "resolve", "with_enter", "wait_t0", "wait"} =>
           /\ session.browser # "open"
           /\ session.context # "open"
           /\ session.playwright = "stopped"
    /\ pc = "launch" => session.browser = "none" /\ hist.launches = hist.fills - 1
    /\ pc \in FlowPcs \ {"launch", "with_exit"} => hist.launches = hist.fills

\* the second invocation has its browser open, the first one's is closed
C17_Witness ==
    /\ hist.fills = 2
    /\ hist.launches = 2
    /\ hist.closed = 1
    /\ session.browser = "open"
    /\ pc = "ui"

=============================================================================
